---- MODULE Spec2Model ----
(***************************************************************************)
(* Conway's Game of Life (src/src/main.ts): the Life engine, the part of   *)
(* Renderer that maps a pointer position to a cell, and the App controller *)
(* with its event handlers and its setTimeout playback loop.               *)
(*                                                                         *)
(* A grid is a function from row index y in 0..height-1 to a row, a        *)
(* function from column index x in 0..width-1 to 0 (dead) or 1 (alive),    *)
(* so that cells[y][x] reads as in the source.                             *)
(***************************************************************************)
EXTENDS Integers, Sequences, FiniteSets, TLC

(***************************************************************************)
(* Bounds of the model.                                                    *)
(***************************************************************************)
\* Spec: grids of width * height <= MaxCells cells
MaxCells == 4
\* SpecFn: grids of width * height <= MaxFnCells cells (3x3 included)
MaxFnCells == 9
\* SpecPattern: grids of up to MaxPatDim columns and rows
MaxPatDim == 6
\* generation advances are explored up to this value of App.generation
MaxGen == 2
\* side, in CSS pixels, of the canvas' bounding rectangle
RectSide == 4
\* SpecCanvas: canvases of 0..MaxCanvasPx pixels in width and in height
MaxCanvasPx == 16
\* SpecPlay, SpecLive, SpecRef: grids of width * height <= MaxAppCells cells
MaxAppCells == 2

(***************************************************************************)
(* Program constants.                                                      *)
(***************************************************************************)
\* const initialCellSize = 8
initialCellSize == 8
\* speedMs: number = 200
DefaultSpeedMs == 200
\* animationId: number | null = null (timer ids are positive)
null == 0
\* this.life.randomize(0.25), as a percentage
RandomBtnProb == 25
\* app.life.randomize(0.15), as a percentage
InitialProb == 15
\* values of Math.random() in [0,1), as percentages
RandomDraws == {0, 99}

(***************************************************************************)
(* JavaScript arithmetic.                                                  *)
(***************************************************************************)
\* a % b of JavaScript: the result takes the sign of the dividend
JsRem(a, b) == IF a >= 0 THEN a % b ELSE -((-a) % b)

\* an index pair that lies inside the array of rows c
HasCell(c, x, y) == y \in DOMAIN c /\ x \in DOMAIN c[y]

\* the array read c[y][x]; a read outside the array yields no number, and a
\* sum that takes it in is NaN: it is kept apart from every count as -100
ReadCell(c, x, y) == IF HasCell(c, x, y) THEN c[y][x] ELSE -100

(***************************************************************************)
(* class Life                                                              *)
(***************************************************************************)
\* createEmpty with the row loop running one row too far (y <= height)
createEmptyExtraRow(w, h) == [y \in 0..h |-> [x \in 0..(w - 1) |-> 0]]

createEmpty(w, h) == [y \in 0..(h - 1) |-> [x \in 0..(w - 1) |-> 0]]

\* inBounds with the upper limits included (x <= width, y <= height)
inBoundsInclusive(w, h, x, y) == x >= 0 /\ x <= w /\ y >= 0 /\ y <= h

inBounds(w, h, x, y) == x >= 0 /\ x < w /\ y >= 0 /\ y < h

\* getWrapped without the shift by the dimension: x % width, y % height
WrappedIndexNoShift(w, h, x, y) == [x |-> JsRem(x, w), y |-> JsRem(y, h)]

\* the index pair getWrapped reads
WrappedIndex(w, h, x, y) == [x |-> JsRem(x + w, w), y |-> JsRem(y + h, h)]

getWrapped(c, w, h, x, y) ==
    LET i == WrappedIndex(w, h, x, y)
    IN  ReadCell(c, i.x, i.y)

\* the k-th (dx,dy) of the two nested loops of countNeighbors, k in 0..8:
\* dy is the outer loop, dx the inner one
LoopOffset(k) == [dx |-> (k % 3) - 1, dy |-> (k \div 3) - 1]

\* countNeighbors without the skip of the centre (dx = 0, dy = 0)
NeighborTermWithCentre(c, w, h, wr, x, y, dx, dy) ==
    LET nx == x + dx
        ny == y + dy
    IN  IF wr THEN getWrapped(c, w, h, nx, ny)
        ELSE IF inBounds(w, h, nx, ny) THEN ReadCell(c, nx, ny) ELSE 0

\* what one iteration of the loops adds to count
NeighborTerm(c, w, h, wr, x, y, dx, dy) ==
    IF dx = 0 /\ dy = 0 THEN 0
    ELSE LET nx == x + dx
             ny == y + dy
         IN  IF wr THEN getWrapped(c, w, h, nx, ny)
             ELSE IF inBounds(w, h, nx, ny) THEN ReadCell(c, nx, ny) ELSE 0

RECURSIVE CountFrom(_, _, _, _, _, _, _, _)
CountFrom(c, w, h, wr, x, y, k, count) ==
    IF k > 8 THEN count
    ELSE LET o == LoopOffset(k)
         IN  CountFrom(c, w, h, wr, x, y, k + 1,
                       count + NeighborTerm(c, w, h, wr, x, y, o.dx, o.dy))

countNeighbors(c, w, h, wr, x, y) == CountFrom(c, w, h, wr, x, y, 0, 0)

\* the cells countNeighbors(x, y) reads, as index pairs
NeighborReads(w, h, wr, x, y) ==
    { IF wr THEN WrappedIndex(w, h, x + LoopOffset(k).dx, y + LoopOffset(k).dy)
            ELSE [x |-> x + LoopOffset(k).dx, y |-> y + LoopOffset(k).dy] :
      k \in { j \in 0..8 :
                /\ ~(LoopOffset(j).dx = 0 /\ LoopOffset(j).dy = 0)
                /\ wr \/ inBounds(w, h, x + LoopOffset(j).dx, y + LoopOffset(j).dy) } }

\* the rule storing the neighbour count of a surviving cell instead of 1
NextStateCount(alive, n) ==
    IF alive THEN (IF n = 2 \/ n = 3 THEN n ELSE 0)
    ELSE (IF n = 3 THEN 1 ELSE 0)

\* the rule letting a cell survive on 2 neighbours only
NextStateTwoOnly(alive, n) ==
    IF alive THEN (IF n = 2 THEN 1 ELSE 0)
    ELSE (IF n = 3 THEN 1 ELSE 0)

\* the rule of nextGeneration for one cell
NextState(alive, n) ==
    IF alive THEN (IF n = 2 \/ n = 3 THEN 1 ELSE 0)
    ELSE (IF n = 3 THEN 1 ELSE 0)

\* the sweep writing each next state into the grid it still reads
RECURSIVE SweepInPlace(_, _, _, _, _, _, _)
SweepInPlace(c, w, h, wr, i, newCells, population) ==
    IF i >= w * h THEN [newCells |-> c, population |-> population]
    ELSE LET y == i \div w
             x == i % w
             n == countNeighbors(c, w, h, wr, x, y)
             alive == ReadCell(c, x, y) = 1
             next == NextState(alive, n)
         IN  SweepInPlace([c EXCEPT ![y][x] = next], w, h, wr, i + 1,
                          newCells, population + next)

\* the sweep adding the cell's old state to population instead of the new one
RECURSIVE SweepCountsOld(_, _, _, _, _, _, _)
SweepCountsOld(c, w, h, wr, i, newCells, population) ==
    IF i >= w * h THEN [newCells |-> newCells, population |-> population]
    ELSE LET y == i \div w
             x == i % w
             n == countNeighbors(c, w, h, wr, x, y)
             alive == ReadCell(c, x, y) = 1
             next == NextState(alive, n)
         IN  SweepCountsOld(c, w, h, wr, i + 1,
                            [newCells EXCEPT ![y][x] = next],
                            population + (IF alive THEN 1 ELSE 0))

\* the sweep of nextGeneration from cell number i (row-major) on: it reads
\* this.cells (c) and writes newCells
RECURSIVE Sweep(_, _, _, _, _, _, _)
Sweep(c, w, h, wr, i, newCells, population) ==
    IF i >= w * h THEN [newCells |-> newCells, population |-> population]
    ELSE LET y == i \div w
             x == i % w
             n == countNeighbors(c, w, h, wr, x, y)
             alive == ReadCell(c, x, y) = 1
             next == NextState(alive, n)
         IN  Sweep(c, w, h, wr, i + 1,
                   [newCells EXCEPT ![y][x] = next], population + next)

nextGeneration(c, w, h, wr) == Sweep(c, w, h, wr, 0, createEmpty(w, h), 0)

\* randomize comparing with <= instead of <
randomizeInclusive(c, w, h, prob, draws) ==
    [y \in DOMAIN c \cup 0..(h - 1) |->
        [x \in (IF y \in DOMAIN c THEN DOMAIN c[y] ELSE {}) \cup
               (IF y \in 0..(h - 1) THEN 0..(w - 1) ELSE {}) |->
            IF inBounds(w, h, x, y)
            THEN (IF draws[y][x] <= prob THEN 1 ELSE 0)
            ELSE c[y][x]]]

\* the loop of randomize: draws[y][x] is the value Math.random() returns for
\* cell (x, y); every cell with y < height and x < width is overwritten
randomize(c, w, h, prob, draws) ==
    [y \in DOMAIN c \cup 0..(h - 1) |->
        [x \in (IF y \in DOMAIN c THEN DOMAIN c[y] ELSE {}) \cup
               (IF y \in 0..(h - 1) THEN 0..(w - 1) ELSE {}) |->
            IF inBounds(w, h, x, y)
            THEN (IF draws[y][x] < prob THEN 1 ELSE 0)
            ELSE c[y][x]]]

DrawsFor(w, h) == [0..(h - 1) -> [0..(w - 1) -> RandomDraws]]

(***************************************************************************)
(* class Renderer                                                          *)
(***************************************************************************)
\* resizeCanvas: canvas.width = life.width * cellSize
CanvasSize(n) == n * initialCellSize

\* Math.floor((c / rect.size) * canvas.size / cellSize), for an integer
\* offset c into a bounding rectangle of RectSide pixels, in exact arithmetic
CellOfPixel(c, n) == (c * CanvasSize(n)) \div (RectSide * initialCellSize)

\* xyFromEvent with the upper limits accepted (x > width, y > height)
xyFromEventInclusive(w, h, cx, cy) ==
    LET x == CellOfPixel(cx, w)
        y == CellOfPixel(cy, h)
    IN  IF x < 0 \/ x > w \/ y < 0 \/ y > h
        THEN [hit |-> FALSE, x |-> x, y |-> y]
        ELSE [hit |-> TRUE, x |-> x, y |-> y]

\* xyFromEvent: the cell under the pointer, hit = FALSE standing for null
xyFromEvent(w, h, cx, cy) ==
    LET x == CellOfPixel(cx, w)
        y == CellOfPixel(cy, h)
    IN  IF x < 0 \/ x >= w \/ y < 0 \/ y >= h
        THEN [hit |-> FALSE, x |-> x, y |-> y]
        ELSE [hit |-> TRUE, x |-> x, y |-> y]

\* offsets of a pointer event relative to the bounding rectangle
PixelOffsets == (0 - 1)..RectSide

\* the click handler setting the cell alive instead of flipping it
ToggleCellSet(c, x, y) ==
    [c EXCEPT ![y] = [i \in DOMAIN c[y] \cup {x} |-> IF i = x THEN 1 ELSE c[y][i]]]

\* this.life.cells[y][x] = this.life.cells[y][x] === 1 ? 0 : 1
\* (an assignment past the end of a row would lengthen that row)
ToggleCell(c, x, y) ==
    [c EXCEPT ![y] = [i \in DOMAIN c[y] \cup {x} |->
                         IF i = x THEN (IF ReadCell(c, x, y) = 1 THEN 0 ELSE 1)
                         ELSE c[y][i]]]

(***************************************************************************)
(* class App                                                               *)
(***************************************************************************)
VARIABLES
    width, height, wrap, cells,   \* the fields of Life
    running, animationId,         \* App.running, App.animationId
    speedMs, generation,          \* App.speedMs, App.generation
    population,                   \* App.population
    timers,                       \* pending setTimeout callbacks: [id, delay]
    pc,                           \* "constructed" after new App(canvas), then "ready"
    lastOp,                       \* the handler that ran last, with its cell
    prev,                         \* the Life fields before the last click or advance
    held                          \* a reference to a grid array kept by a caller

vars == <<width, height, wrap, cells, running, animationId, speedMs,
          generation, population, timers, pc, lastOp, prev, held>>

lifeVars == <<width, height, wrap, cells>>
playVars == <<running, animationId, timers>>

\* values the speed slider can take
SpeedValues == {DefaultSpeedMs, DefaultSpeedMs \div 2}

Op(name) == [name |-> name, x |-> 0 - 1, y |-> 0 - 1, error |-> "none"]
OpAt(name, x, y) == [name |-> name, x |-> x, y |-> y, error |-> "none"]

\* a call of Life.randomize(prob), prob as a percentage
OpProb(name, prob) ==
    [name |-> name, x |-> 0 - 1, y |-> 0 - 1, error |-> "none", prob |-> prob]

\* a call of App.stop, with the number of pending timeouts clearTimeout removed
OpStop(cleared) ==
    [name |-> "stop", x |-> 0 - 1, y |-> 0 - 1, error |-> "none", cleared |-> cleared]

NoSnapshot == [width |-> 0, height |-> 0, wrap |-> FALSE, cells |-> createEmpty(0, 0)]
Snapshot == [width |-> width, height |-> height, wrap |-> wrap, cells |-> cells]

\* A caller's reference to the array that was this.cells when it was taken:
\* live says that it still is the array this.cells points to, now is what the
\* array holds, stepped that nextGeneration has run on it since, atStep what
\* it held when nextGeneration was called.
NoReference ==
    [taken |-> FALSE, live |-> FALSE, stepped |-> FALSE,
     atStep |-> createEmpty(0, 0), now |-> createEmpty(0, 0)]

\* an assignment this.cells[y][x] = v writes into the array that is live
HeldAfterWrite(c) == IF held.live THEN [held EXCEPT !.now = c] ELSE held

\* nextGeneration writing the next states into the array this.cells points to
\* instead of a new one
InstalledIsLiveArray(live) == live

\* this.cells = newCells, newCells coming from createEmpty(): whether an array
\* that was this.cells before the assignment still is afterwards
InstalledIsOldArray(live) == FALSE

\* new Life(cols, rows, true) and the field initialisers of App
AppConstructed(w, h) ==
    /\ width = w
    /\ height = h
    /\ wrap = TRUE
    /\ cells = createEmpty(w, h)
    /\ running = FALSE
    /\ animationId = null
    /\ speedMs = DefaultSpeedMs
    /\ generation = 0
    /\ population = 0
    /\ timers = {}

Dims(maxCells) ==
    { d \in (1..maxCells) \X (1..maxCells) : d[1] * d[2] <= maxCells }

Init ==
    /\ \E d \in Dims(MaxCells) : AppConstructed(d[1], d[2])
    /\ pc = "constructed"
    /\ lastOp = Op("construct")
    /\ prev = NoSnapshot
    /\ held = NoReference

\* the rest of the DOMContentLoaded handler: app.life.randomize(0.15)
InitialRandomize ==
    /\ pc = "constructed"
    /\ \E draws \in DrawsFor(width, height) :
          cells' = randomize(cells, width, height, InitialProb, draws)
    /\ pc' = "ready"
    /\ lastOp' = Op("load")
    /\ prev' = NoSnapshot
    /\ held' = HeldAfterWrite(cells')
    /\ UNCHANGED <<width, height, wrap, running, animationId, speedMs,
                   generation, population, timers>>

\* the id setTimeout returns: one no pending timer has
FreshId(ts) ==
    CHOOSE i \in 1..(Cardinality(ts) + 1) :
        /\ \A t \in ts : t.id # i
        /\ \A j \in 1..(i - 1) : \E t \in ts : t.id = j

\* loopStep: this.life.nextGeneration(), then the two counters
loopStep ==
    LET res == nextGeneration(cells, width, height, wrap)
    IN  /\ generation < MaxGen
        /\ cells' = res.newCells
        /\ population' = res.population
        /\ generation' = generation + 1
        /\ prev' = Snapshot
        /\ held' = IF held.live
                   THEN LET alias == InstalledIsOldArray(held.live)
                        IN  [held EXCEPT !.live = alias,
                                         !.stepped = TRUE,
                                         !.atStep = cells,
                                         !.now = IF alias THEN res.newCells ELSE cells]
                   ELSE held
        /\ UNCHANGED <<width, height, wrap, speedMs, pc>>

\* tick, given the timers pending when it runs: loopStep, then the next
\* timeout unless running is false
\* tick without its last line: the loop advances once and sets no timeout
TickBodyOnce(pending) ==
    /\ loopStep
    /\ timers' = pending
    /\ animationId' = animationId

TickBody(pending) ==
    /\ loopStep
    /\ IF running'
       THEN LET id == FreshId(pending)
            IN  /\ timers' = pending \cup {[id |-> id, delay |-> speedMs]}
                /\ animationId' = id
       ELSE /\ timers' = pending
            /\ animationId' = animationId

\* start without its first line, the return while running
startUnguarded ==
    /\ pc = "ready"
    /\ running' = TRUE
    /\ TickBody(timers)
    /\ lastOp' = Op("start")

start ==
    /\ pc = "ready"
    /\ IF running
       THEN /\ lastOp' = Op("startNoop")
            /\ prev' = NoSnapshot
            /\ UNCHANGED <<lifeVars, playVars, speedMs, generation, population, pc, held>>
       ELSE /\ running' = TRUE
            /\ TickBody(timers)
            /\ lastOp' = Op("start")

\* a timer that stays pending after it fired, as one set by setInterval does
tickKeepsTimer ==
    /\ pc = "ready"
    /\ \E t \in timers :
          /\ running' = running
          /\ TickBody(timers)
          /\ lastOp' = Op("tick")

\* a pending timer fires: tick
tick ==
    /\ pc = "ready"
    /\ lastOp' = Op("tick")
    /\ \E t \in timers :
          /\ running' = running
          /\ TickBody(timers \ {t})

\* stop that clears the flag and leaves the timeout pending
stopNoClear ==
    /\ pc = "ready"
    /\ running' = FALSE
    /\ lastOp' = OpStop(0)
    /\ prev' = NoSnapshot
    /\ UNCHANGED <<lifeVars, timers, animationId, speedMs, generation, population, pc, held>>

stop ==
    /\ pc = "ready"
    /\ running' = FALSE
    /\ IF animationId # null
       THEN /\ timers' = { t \in timers : t.id # animationId }
            /\ animationId' = null
       ELSE UNCHANGED <<timers, animationId>>
    /\ lastOp' = OpStop(Cardinality(timers) - Cardinality(timers'))
    /\ prev' = NoSnapshot
    /\ UNCHANGED <<lifeVars, speedMs, generation, population, pc, held>>

step ==
    /\ pc = "ready"
    /\ IF running
       THEN /\ lastOp' = Op("stepNoop")
            /\ prev' = NoSnapshot
            /\ UNCHANGED <<lifeVars, playVars, speedMs, generation, population, pc, held>>
       ELSE /\ loopStep
            /\ lastOp' = Op("step")
            /\ UNCHANGED playVars

ClearClick ==
    /\ pc = "ready"
    /\ cells' = createEmpty(width, height)
    /\ generation' = 0
    /\ population' = 0
    /\ lastOp' = Op("clear")
    /\ prev' = NoSnapshot
    /\ held' = [held EXCEPT !.live = FALSE]
    /\ UNCHANGED <<width, height, wrap, playVars, speedMs, pc>>

\* the Random handler without its line this.generation = 0
RandomClickKeepsGeneration ==
    /\ pc = "ready"
    /\ \E draws \in DrawsFor(width, height) :
          cells' = randomize(cells, width, height, RandomBtnProb, draws)
    /\ lastOp' = Op("random")
    /\ prev' = NoSnapshot
    /\ held' = HeldAfterWrite(cells')
    /\ UNCHANGED <<width, height, wrap, playVars, speedMs, generation, population, pc>>

RandomClick ==
    /\ pc = "ready"
    /\ \E draws \in DrawsFor(width, height) :
          cells' = randomize(cells, width, height, RandomBtnProb, draws)
    /\ generation' = 0
    /\ lastOp' = Op("random")
    /\ prev' = NoSnapshot
    /\ held' = HeldAfterWrite(cells')
    /\ UNCHANGED <<width, height, wrap, playVars, speedMs, population, pc>>

\* the speed handler giving the pending timeout the new delay as well
SpeedInputRetimes ==
    /\ pc = "ready"
    /\ \E v \in SpeedValues :
          /\ speedMs' = v
          /\ timers' = { [t EXCEPT !.delay = v] : t \in timers }
    /\ lastOp' = Op("speed")
    /\ prev' = NoSnapshot
    /\ UNCHANGED <<lifeVars, running, animationId, generation, population, pc, held>>

SpeedInput ==
    /\ pc = "ready"
    /\ \E v \in SpeedValues : speedMs' = v
    /\ lastOp' = Op("speed")
    /\ prev' = NoSnapshot
    /\ UNCHANGED <<lifeVars, playVars, generation, population, pc, held>>

\* the wrap handler resetting the generation counter as the Random handler does
WrapChangeResets ==
    /\ pc = "ready"
    /\ \E v \in BOOLEAN : wrap' = v
    /\ generation' = 0
    /\ lastOp' = Op("wrap")
    /\ prev' = NoSnapshot
    /\ UNCHANGED <<width, height, cells, playVars, speedMs, population, pc, held>>

WrapChange ==
    /\ pc = "ready"
    /\ \E v \in BOOLEAN : wrap' = v
    /\ lastOp' = Op("wrap")
    /\ prev' = NoSnapshot
    /\ UNCHANGED <<width, height, cells, playVars, speedMs, generation,
                   population, pc, held>>

\* the click handler of the canvas
CanvasClick ==
    /\ pc = "ready"
    /\ \E cx \in PixelOffsets, cy \in PixelOffsets :
          LET pos == xyFromEvent(width, height, cx, cy)
          IN  /\ IF pos.hit
                 THEN cells' = ToggleCell(cells, pos.x, pos.y)
                 ELSE cells' = cells
              /\ lastOp' = OpAt("click", pos.x, pos.y)
    /\ prev' = Snapshot
    /\ held' = HeldAfterWrite(cells')
    /\ UNCHANGED <<width, height, wrap, playVars, speedMs, generation,
                   population, pc>>

\* the handlers that write to the engine: the page load, the canvas click, the
\* wrap selector, the Clear, Random and Step buttons
Next ==
    \/ InitialRandomize
    \/ step
    \/ ClearClick
    \/ RandomClick
    \/ WrapChange
    \/ CanvasClick

Spec == Init /\ [][Next]_vars

(***************************************************************************)
(* SpecFn: nextGeneration and countNeighbors as functions of the engine's  *)
(* state. Every grid of at most MaxFnCells cells and both wrap modes are   *)
(* drawn (each is reachable by clicks and the wrap selector); Step         *)
(* advances them.                                                          *)
(***************************************************************************)
Grids(w, h) == [0..(h - 1) -> [0..(w - 1) -> {0, 1}]]

EngineReady(w, h, wr, c) ==
    /\ width = w
    /\ height = h
    /\ wrap = wr
    /\ cells = c
    /\ running = FALSE
    /\ animationId = null
    /\ speedMs = DefaultSpeedMs
    /\ generation = 0
    /\ population = 0
    /\ timers = {}
    /\ pc = "ready"
    /\ lastOp = Op("load")
    /\ prev = NoSnapshot
    /\ held = NoReference

InitFn ==
    \E d \in Dims(MaxFnCells), wr \in BOOLEAN :
        \E c \in Grids(d[1], d[2]) : EngineReady(d[1], d[2], wr, c)

NextFn == step

SpecFn == InitFn /\ [][NextFn]_vars

(***************************************************************************)
(* SpecPattern: the still life and the oscillator, on non-wrapping grids   *)
(* of 4..MaxPatDim columns and rows.                                       *)
(***************************************************************************)
\* the grid of w x h cells whose alive cells are those of the set alive of <<x, y>>
GridOf(w, h, alive) ==
    [y \in 0..(h - 1) |-> [x \in 0..(w - 1) |-> IF <<x, y>> \in alive THEN 1 ELSE 0]]

Block(ox, oy) == {<<ox, oy>>, <<ox + 1, oy>>, <<ox, oy + 1>>, <<ox + 1, oy + 1>>}
BlinkerH == {<<1, 2>>, <<2, 2>>, <<3, 2>>}
BlinkerV == {<<2, 1>>, <<2, 2>>, <<2, 3>>}

InitPattern ==
    \E w \in 4..MaxPatDim, h \in 4..MaxPatDim :
        \/ \E ox \in 0..(w - 2), oy \in 0..(h - 2) :
              EngineReady(w, h, FALSE, GridOf(w, h, Block(ox, oy)))
        \/ /\ w >= 5
           /\ h >= 5
           /\ EngineReady(w, h, FALSE, GridOf(w, h, BlinkerH))

NextPattern == step

SpecPattern == InitPattern /\ [][NextPattern]_vars

(***************************************************************************)
(* SpecLife: Life.randomize called with the probabilities 0.0 and 1.0, and *)
(* the Clear button, from every grid of at most MaxCells cells.            *)
(***************************************************************************)
\* the probabilities 0.0 and 1.0, as percentages
EdgeProbs == {0, 100}

\* a call life.randomize(prob)
LifeRandomize ==
    /\ pc = "ready"
    /\ \E prob \in EdgeProbs :
          /\ \E draws \in DrawsFor(width, height) :
                cells' = randomize(cells, width, height, prob, draws)
          /\ lastOp' = OpProb("randomize", prob)
    /\ prev' = NoSnapshot
    /\ held' = HeldAfterWrite(cells')
    /\ UNCHANGED <<width, height, wrap, playVars, speedMs, generation,
                   population, pc>>

InitLife ==
    \E d \in Dims(MaxCells), wr \in BOOLEAN :
        \E c \in Grids(d[1], d[2]) : EngineReady(d[1], d[2], wr, c)

NextLife ==
    \/ ClearClick
    \/ LifeRandomize

SpecLife == InitLife /\ [][NextLife]_vars

(***************************************************************************)
(* SpecCanvas: the App constructed on a canvas of any size from 0 pixels   *)
(* on, cols and rows being Math.floor(canvas size / initialCellSize), and  *)
(* the handlers of Spec.                                                   *)
(***************************************************************************)
InitCanvas ==
    /\ \E cw \in 0..MaxCanvasPx, ch \in 0..MaxCanvasPx :
          AppConstructed(cw \div initialCellSize, ch \div initialCellSize)
    /\ pc = "constructed"
    /\ lastOp = Op("construct")
    /\ prev = NoSnapshot
    /\ held = NoReference

SpecCanvas == InitCanvas /\ [][Next]_vars

(***************************************************************************)
(* The whole App on grids of at most MaxAppCells cells.                    *)
(* SpecPlay: every handler and the timer.  SpecLive: SpecPlay with the     *)
(* event loop running every timeout that stays pending.  SpecRef: the      *)
(* handlers of Spec and a caller that keeps a reference to life.cells.     *)
(***************************************************************************)
InitApp ==
    /\ \E d \in Dims(MaxAppCells) : AppConstructed(d[1], d[2])
    /\ pc = "constructed"
    /\ lastOp = Op("construct")
    /\ prev = NoSnapshot
    /\ held = NoReference

NextPlay ==
    \/ InitialRandomize
    \/ start
    \/ tick
    \/ stop
    \/ step
    \/ ClearClick
    \/ RandomClick
    \/ SpeedInput
    \/ WrapChange
    \/ CanvasClick

SpecPlay == InitApp /\ [][NextPlay]_vars

\* the event loop running a due timeout, as the scheduler sees it: a timeout
\* is pending and its callback, tick, runs and counts a generation. Of the
\* steps of NextPlay only those of tick are such steps, and one is possible
\* exactly when tick is.
TimerFires ==
    /\ pc = "ready"
    /\ timers # {}
    /\ generation < MaxGen
    /\ lastOp' = Op("tick")
    /\ generation' = generation + 1

\* TimerFires and tick are the same steps of NextPlay and are possible in the
\* same states, so fairness of TimerFires is fairness of tick
TimerFiresIsTick ==
    /\ [](ENABLED <<tick>>_vars <=> ENABLED <<TimerFires>>_<<generation, lastOp>>)
    /\ [][TimerFires <=> tick]_vars

\* a pending timeout is run in the end (the event loop starves no timer)
SpecLive == InitApp /\ [][NextPlay]_vars /\ WF_<<generation, lastOp>>(TimerFires)

\* a caller reads app.life.cells and keeps the reference
HoldReference ==
    /\ pc = "ready"
    /\ held' = [taken |-> TRUE, live |-> TRUE, stepped |-> FALSE,
                atStep |-> createEmpty(0, 0), now |-> cells]
    /\ lastOp' = Op("hold")
    /\ prev' = NoSnapshot
    /\ UNCHANGED <<lifeVars, playVars, speedMs, generation, population, pc>>

NextRef ==
    \/ InitialRandomize
    \/ step
    \/ ClearClick
    \/ RandomClick
    \/ WrapChange
    \/ CanvasClick
    \/ HoldReference

SpecRef == InitApp /\ [][NextRef]_vars

(***************************************************************************)
(* Vocabulary of the properties.                                           *)
(***************************************************************************)
Coords(w, h) == (0..(w - 1)) \X (0..(h - 1))

\* the alive cells of a grid, as <<x, y>>
AliveSet(c) == { p \in UNION { {<<x, y>> : x \in DOMAIN c[y]} : y \in DOMAIN c } :
                    c[p[2]][p[1]] = 1 }

\* a grid of exactly h rows of exactly w cells
HasShape(c, w, h) ==
    /\ DOMAIN c = 0..(h - 1)
    /\ \A y \in DOMAIN c : DOMAIN c[y] = 0..(w - 1)

\* the 8 Moore-neighbourhood positions of (x, y)
Moore(x, y) == { <<x + dx, y + dy>> : dx \in {0 - 1, 0, 1}, dy \in {0 - 1, 0, 1} }
                   \ {<<x, y>>}

\* toroidal neighbour count: the 8 offsets, each taken modulo the dimensions
TorusCount(c, w, h, x, y) ==
      c[(y - 1) % h][(x - 1) % w] + c[(y - 1) % h][x % w] + c[(y - 1) % h][(x + 1) % w]
    + c[y % h][(x - 1) % w]                               + c[y % h][(x + 1) % w]
    + c[(y + 1) % h][(x - 1) % w] + c[(y + 1) % h][x % w] + c[(y + 1) % h][(x + 1) % w]

\* bounded neighbour count: the alive Moore neighbours that lie in the grid
BoundedCount(c, w, h, x, y) ==
    Cardinality({ p \in Moore(x, y) : p \in Coords(w, h) /\ c[p[2]][p[1]] = 1 })

NeighborCount(c, w, h, wr, x, y) ==
    IF wr THEN TorusCount(c, w, h, x, y) ELSE BoundedCount(c, w, h, x, y)

\* the last handler advanced the generation
Advanced == lastOp.name \in {"step", "start", "tick"}

\* C1: one nextGeneration sets every cell to alive exactly when, in the grid
\* before the call, the cell was alive with 2 or 3 alive neighbours or dead
\* with exactly 3, and to dead otherwise; every count is taken on the grid
\* before the call.
NextGenerationRule ==
    Advanced =>
        \A p \in Coords(width, height) :
            LET x == p[1]
                y == p[2]
                n == NeighborCount(prev.cells, width, height, prev.wrap, x, y)
                was == prev.cells[y][x]
            IN  /\ cells[y][x] \in {0, 1}
                /\ cells[y][x] = 1 <=> \/ was = 1 /\ n \in {2, 3}
                                       \/ was = 0 /\ n = 3

\* a step in which a cell was born, a cell died and a cell survived next to a
\* cell that changed
NextGenerationWitness ==
    /\ Advanced
    /\ \E p \in Coords(width, height) : prev.cells[p[2]][p[1]] = 0 /\ cells[p[2]][p[1]] = 1
    /\ \E p \in Coords(width, height) : prev.cells[p[2]][p[1]] = 1 /\ cells[p[2]][p[1]] = 0
    /\ \E p \in Coords(width, height) : prev.cells[p[2]][p[1]] = 1 /\ cells[p[2]][p[1]] = 1

\* C2: with wrap enabled, countNeighbors(x, y) is the sum of the cells at the
\* 8 offsets taken modulo width and height, and every cell it reads is in the
\* grid; on a 3x3 grid whose only alive cell is (0,0), countNeighbors(2,2) is
\* 1 with wrap enabled and 0 with wrap disabled.
WrapNeighborCount ==
    /\ wrap =>
          \A p \in Coords(width, height) :
              /\ countNeighbors(cells, width, height, wrap, p[1], p[2])
                    = TorusCount(cells, width, height, p[1], p[2])
              /\ \A r \in NeighborReads(width, height, wrap, p[1], p[2]) :
                    <<r.x, r.y>> \in Coords(width, height)
    /\ (width = 3 /\ height = 3 /\ AliveSet(cells) = {<<0, 0>>}) =>
          countNeighbors(cells, width, height, wrap, 2, 2) = (IF wrap THEN 1 ELSE 0)

\* a step on the 3x3 torus whose only alive cell (0,0) was counted from (2,2)
WrapNeighborWitness ==
    /\ Advanced
    /\ width = 3
    /\ height = 3
    /\ prev.wrap
    /\ AliveSet(prev.cells) = {<<0, 0>>}
    /\ countNeighbors(prev.cells, width, height, prev.wrap, 2, 2) = 1
    /\ [x |-> 0, y |-> 0] \in NeighborReads(width, height, prev.wrap, 2, 2)

\* C3: with wrap disabled, countNeighbors(x, y) is the number of alive cells
\* among the Moore neighbours that lie in the grid, and it reads no cell
\* outside the grid.
BoundedNeighborCount ==
    ~wrap =>
        \A p \in Coords(width, height) :
            /\ countNeighbors(cells, width, height, wrap, p[1], p[2])
                  = BoundedCount(cells, width, height, p[1], p[2])
            /\ \A r \in NeighborReads(width, height, wrap, p[1], p[2]) :
                  <<r.x, r.y>> \in Coords(width, height)

\* a step that counted, for a corner cell, five positions outside the grid as
\* 0 and the three inside as alive
BoundedNeighborWitness ==
    /\ Advanced
    /\ ~prev.wrap
    /\ width >= 2
    /\ height >= 2
    /\ countNeighbors(prev.cells, width, height, prev.wrap, 0, 0) = 3
    /\ Cardinality(NeighborReads(width, height, prev.wrap, 0, 0)) = 3
    /\ cells[0][0] = 1

\* C4: the population nextGeneration returns (stored by loopStep in
\* App.population) is the number of alive cells of the grid it installed.
PopulationConsistency ==
    Advanced => population = Cardinality(AliveSet(cells))

\* a step that changed the number of alive cells and left some alive
PopulationWitness ==
    /\ Advanced
    /\ population > 0
    /\ population # Cardinality(AliveSet(prev.cells))

\* C5: every cell of the live grid is 0 or 1.
CellsBinary ==
    \A y \in DOMAIN cells : \A x \in DOMAIN cells[y] : cells[y][x] \in {0, 1}

\* a grid with alive and dead cells after a click on a grid that Step produced
CellsBinaryWitness ==
    /\ lastOp.name = "click"
    /\ generation > 0
    /\ \E p \in Coords(width, height) : cells[p[2]][p[1]] = 1
    /\ \E p \in Coords(width, height) : cells[p[2]][p[1]] = 0

\* C6: the live grid always has exactly height rows of exactly width cells,
\* and width and height never change.
DimensionInvariance ==
    /\ [](HasShape(cells, width, height))
    /\ [][width' = width /\ height' = height]_vars

\* a grid of two rows that Step produced from a randomized grid
DimensionWitness ==
    /\ Advanced
    /\ height = 2
    /\ width = 2
    /\ prev.cells # cells
    /\ HasShape(cells, 2, 2)

\* C7: on a non-wrapping grid of at least 4x4 whose only alive cells form a
\* 2x2 block, one nextGeneration leaves the grid unchanged.
BlockStillLife ==
    (/\ Advanced
     /\ ~prev.wrap
     /\ \E ox \in 0..(width - 2), oy \in 0..(height - 2) :
            AliveSet(prev.cells) = Block(ox, oy))
        => cells = prev.cells

\* the 4x4 grid with the block at (1,1), after one step
BlockWitness ==
    /\ Advanced
    /\ width = 4
    /\ height = 4
    /\ ~wrap
    /\ AliveSet(prev.cells) = {<<1, 1>>, <<1, 2>>, <<2, 1>>, <<2, 2>>}
    /\ AliveSet(cells) = {<<1, 1>>, <<1, 2>>, <<2, 1>>, <<2, 2>>}

\* C8: on a non-wrapping grid of at least 5x5 whose only alive cells are
\* (1,2),(2,2),(3,2), one nextGeneration leaves exactly (2,1),(2,2),(2,3)
\* alive and a second one leaves exactly (1,2),(2,2),(3,2) alive again.
BlinkerOscillates ==
    /\ (Advanced /\ generation = 1 /\ AliveSet(prev.cells) = BlinkerH)
          => AliveSet(cells) = BlinkerV
    /\ (Advanced /\ generation = 2 /\ AliveSet(prev.cells) = BlinkerV)
          => AliveSet(cells) = BlinkerH

\* the blinker back in its horizontal form after the second step
BlinkerWitness ==
    /\ Advanced
    /\ generation = 2
    /\ ~wrap
    /\ AliveSet(prev.cells) = BlinkerV
    /\ AliveSet(cells) = BlinkerH

\* the last handler was a canvas click on a cell of the grid / off the grid
ClickedInGrid ==
    lastOp.name = "click" /\ <<lastOp.x, lastOp.y>> \in Coords(prev.width, prev.height)
ClickedOffGrid ==
    lastOp.name = "click" /\ <<lastOp.x, lastOp.y>> \notin Coords(prev.width, prev.height)

\* C9: a toggle of an in-grid cell flips that cell and changes no other cell,
\* nor the dimensions, nor the wrap flag; a second toggle of the same cell
\* restores the grid.
ToggleFlipsOneCell ==
    ClickedInGrid =>
        /\ width = prev.width
        /\ height = prev.height
        /\ wrap = prev.wrap
        /\ HasShape(cells, width, height)
        /\ \A p \in Coords(width, height) :
              cells[p[2]][p[1]] =
                  IF p = <<lastOp.x, lastOp.y>>
                  THEN (IF prev.cells[p[2]][p[1]] = 1 THEN 0 ELSE 1)
                  ELSE prev.cells[p[2]][p[1]]
        /\ ToggleCell(cells, lastOp.x, lastOp.y) = prev.cells

\* a toggle that killed a cell next to a cell that stayed alive
ToggleWitness ==
    /\ ClickedInGrid
    /\ prev.cells[lastOp.y][lastOp.x] = 1
    /\ cells[lastOp.y][lastOp.x] = 0
    /\ AliveSet(cells) # {}

\* C10 as stated: a toggle request with a coordinate outside the grid fails
\* with OutOfBounds and leaves the cells, the dimensions and the wrap flag as
\* they were.
OffGridToggleFails ==
    ClickedOffGrid => /\ lastOp.error = "OutOfBounds"
                      /\ Snapshot = prev

\* C10 as amended: a toggle request with a coordinate outside the grid is
\* dropped without an error and leaves the cells, the dimensions and the
\* wrap flag as they were.
OffGridToggleIgnored ==
    ClickedOffGrid => /\ lastOp.error = "none"
                      /\ Snapshot = prev

\* a click one column past the right edge of a grid with an alive cell
OffGridToggleWitness ==
    /\ ClickedOffGrid
    /\ lastOp.x = width
    /\ lastOp.y = 0
    /\ AliveSet(cells) # {}

\* C11: an engine with width <= 0 or height <= 0 is never constructed
\* (construction fails with InvalidDimension), so that width > 0 and
\* height > 0 hold of every engine for its whole lifetime.
DimensionsPositive ==
    pc \in {"constructed", "ready"} =>
        /\ width > 0
        /\ height > 0

\* C12: clear() leaves every cell dead (population 0), randomize(0.0) leaves
\* every cell dead and randomize(1.0) leaves every cell alive, whatever the
\* random source draws.
ClearRandomizeDeterminism ==
    /\ lastOp.name = "clear" =>
          /\ HasShape(cells, width, height)
          /\ AliveSet(cells) = {}
          /\ population = 0
    /\ (lastOp.name = "randomize" /\ lastOp.prob = 0) =>
          /\ HasShape(cells, width, height)
          /\ AliveSet(cells) = {}
    /\ (lastOp.name = "randomize" /\ lastOp.prob = 100) =>
          /\ HasShape(cells, width, height)
          /\ Cardinality(AliveSet(cells)) = width * height

\* randomize(1.0) has left the 4 cells of a 2x2 grid alive
ClearRandomizeWitness ==
    /\ lastOp.name = "randomize"
    /\ lastOp.prob = 100
    /\ width = 2
    /\ height = 2
    /\ Cardinality(AliveSet(cells)) = 4

WrapChangeFrame ==
    /\ [][lastOp'.name = "wrap" =>
            /\ cells' = cells
            /\ width' = width
            /\ height' = height
            /\ generation' = generation
            /\ population' = population
            /\ running' = running
            /\ timers' = timers
            /\ speedMs' = speedMs]_vars
    /\ [][lastOp'.name \in {"step", "start", "tick"} =>
            \A p \in Coords(width, height) :
                LET n == NeighborCount(cells, width, height, wrap, p[1], p[2])
                    was == cells[p[2]][p[1]]
                IN  cells'[p[2]][p[1]] = 1 <=> \/ was = 1 /\ n \in {2, 3}
                                               \/ was = 0 /\ n = 3]_vars

\* a tick of a running playback, after wrap was switched off at generation 1,
\* whose result differs from the one wrap would have given
WrapChangeWitness ==
    /\ lastOp.name = "tick"
    /\ running
    /\ generation = 2
    /\ ~wrap
    /\ ~prev.wrap
    /\ cells # nextGeneration(prev.cells, width, height, TRUE).newCells

\* C15: Start while running, Stop while stopped and Step while running leave
\* the grid, the generation counter, the population, the running flag and the
\* set of pending timeouts as they were.
PlaybackGuards ==
    [][(\/ running /\ lastOp'.name \in {"start", "startNoop"}
        \/ running /\ lastOp'.name \in {"step", "stepNoop"}
        \/ ~running /\ lastOp'.name = "stop") =>
            /\ cells' = cells
            /\ generation' = generation
            /\ population' = population
            /\ running' = running
            /\ timers' = timers]_vars

\* Start pressed on a running playback that has ticked once
PlaybackGuardsWitness ==
    /\ lastOp.name = "startNoop"
    /\ running
    /\ generation = 2
    /\ Cardinality(timers) = 1

\* C16: Stop leaves no timeout pending, so a timeout set before a Stop never
\* advances the generation after it: while the playback is stopped the
\* generation counter grows through Step or Start only.
StopCancelsLoop ==
    /\ [][lastOp'.name = "stop" => timers' = {} /\ ~running']_vars
    /\ [][~running /\ generation' > generation =>
            lastOp'.name \in {"step", "start"}]_vars

\* Stop has just cleared the timeout of a playback that had advanced
StopCancelsWitness ==
    /\ lastOp.name = "stop"
    /\ lastOp.cleared = 1
    /\ generation > 0
    /\ ~running
    /\ timers = {}

\* C17: at most one timeout is pending, and one is pending only while the
\* running flag is true, so no two playback loops drive the engine.
SingleTimer ==
    /\ Cardinality(timers) <= 1
    /\ timers # {} => running

\* a running playback after a tick: the timeout that fired is gone and the
\* one pending is the one animationId names
SingleTimerWitness ==
    /\ lastOp.name = "tick"
    /\ running
    /\ \E t \in timers : timers = {t} /\ t.id = animationId

\* C18: the population counter of the controller equals the number of alive
\* cells of the grid in every state.
PopulationDerived ==
    population = Cardinality(AliveSet(cells))

\* C19: a speed change leaves the pending timeout (its delay included), the
\* grid, the counters and the running flag as they were, and the timeout a
\* tick or a start sets has the delay that is current when it is set.
SpeedChangeDeferred ==
    /\ [][lastOp'.name = "speed" =>
            /\ timers' = timers
            /\ animationId' = animationId
            /\ cells' = cells
            /\ generation' = generation
            /\ population' = population
            /\ running' = running]_vars
    /\ [][lastOp'.name \in {"start", "tick"} /\ running' =>
            \E t \in timers' : t.id = animationId' /\ t.delay = speedMs]_vars

\* the speed was changed while a timeout set under the former speed is pending
SpeedChangeWitness ==
    /\ lastOp.name = "speed"
    /\ running
    /\ \E t \in timers : t.id = animationId /\ t.delay # speedMs

GenerationCounts ==
    /\ [](pc = "constructed" => generation = 0)
    /\ [][lastOp'.name \in {"step", "start", "tick"} =>
            /\ generation' = generation + 1
            /\ cells' = nextGeneration(cells, width, height, wrap).newCells]_vars
    /\ [][lastOp'.name \in {"clear", "random"} => generation' = 0]_vars
    /\ [][lastOp'.name \in {"load", "click", "wrap", "speed", "stop",
                             "startNoop", "stepNoop"} =>
            generation' = generation]_vars
    /\ [][generation' # generation =>
            lastOp'.name \in {"step", "start", "tick", "clear", "random"}]_vars

\* a tick of a running playback that counts generation 1: the Start counted
\* 1 before it, so a Clear or a Random has set the counter to 0 in between
GenerationCountsWitness ==
    /\ lastOp.name = "tick"
    /\ running
    /\ generation = 1
    /\ timers # {}

====
